---- MODULE Spec2Model ----
(***************************************************************************)
(* Model of the shorty URL shortener's sqlite-backed store                 *)
(* (package sqlite: New, SaveURL, GetURL, DeleteURL, UpdateAlias).         *)
(*                                                                         *)
(* The table `url` is a set of rows.  Every store method runs in the       *)
(* goroutine of its caller: it prepares its statement (and, for SaveURL    *)
(* and UpdateAlias, reads the clock), then executes ONE SQL statement,     *)
(* which the engine runs atomically.                                       *)
(*   Spec       one caller, one call after the other, the clock running    *)
(*   SpecConc   the steps of two concurrent callers interleaved            *)
(*   SpecFault  Spec on an engine whose calls can fail                     *)
(*   SpecHTTP   the HTTP handlers in front of the store, engine failures   *)
(*   SpecScript fixed sequences of store calls from the empty store        *)
(*   SpecGen    random.GenerateRandomString on every input                 *)
(* In Spec, SpecConc and SpecScript the engine is taken to work: Prepare   *)
(* succeeds and Exec fails only on a constraint of the schema.             *)
(***************************************************************************)
EXTENDS Integers, FiniteSets, Sequences, TLC

\* ---------------------------------------------------------------- bounds
MaxTime == 1                        \* the clock runs over 0..MaxTime
MaxId   == 2                        \* no row is inserted with a larger id
Procs   == {"g1", "g2"}             \* concurrent callers (goroutines)
Aliases == {"abcde", "newer", "zz"} \* alias arguments
Targets == {"https://a", "https://b"}
MaxLen  == 2                        \* GenerateRandomString is applied to lengths 0..MaxLen

\* ------------------------------------------------------------- constants
NoError             == "nil"
ErrURLAlreadyExists == "ErrURLAlreadyExists"
ErrURLNotFound      == "ErrURLNotFound"
\* the driver's sqlite3.Error with ExtendedCode ErrConstraintUnique, wrapped
\* by fmt.Errorf and NOT translated to a storage sentinel
ErrConstraintUnique == "sqlite3.ErrConstraintUnique"
\* any other error of database/sql or the driver (closed or locked database,
\* I/O error, ...), wrapped by fmt.Errorf
ErrStoreFailure     == "StoreFailure"

VARIABLES
    table,    \* the rows of table url: records [id, alias, url, created_at, updated_at]
    now,      \* time.Now().Unix()
    pc,       \* pc[p]: "idle" | "exec" (statement prepared, not yet executed) | "done"
    call,     \* call[p]: the method p is in / was last in, and its arguments
    stamp,    \* stamp[p]: the local variable `timestamp` of p's call
    res,      \* res[p]: what p's last call returned: [err, id, url]
    everIds,  \* history: every id that a row of the table has ever had
    req,      \* req[p]: the HTTP request p's handler is serving
    resp,     \* resp[p]: what the handler wrote to the ResponseWriter
    gen,      \* one application of GenerateRandomString: input, local, result
    script    \* a fixed sequence of store calls, how far it has run, what it returned

\* what the store's methods leave alone
hvars == <<req, resp, gen, script>>

vars == <<table, now, pc, call, stamp, res, everIds, req, resp, gen, script>>

\* ------------------------------------------------------ the table `url`
Max(S) == CHOOSE x \in S : \A y \in S : y <= x

Ids(t) == {r.id : r \in t}

RowsWithAlias(t, a) == {r \in t : r.alias = a}

Live(t, a) == RowsWithAlias(t, a) # {}

\* id INTEGER PRIMARY KEY (no AUTOINCREMENT): the rowid of a new row is one
\* more than the largest rowid now in the table, 1 for an empty table.
NextRowid(t) == IF t = {} THEN 1 ELSE Max(Ids(t)) + 1

\* mutant: the column is declared without UNIQUE
NoUniqueConstraint(t, id, a) == TRUE

\* alias TEXT NOT NULL UNIQUE: may a row with primary key `id` carry alias a?
UniqueOK(t, id, a) == \A r \in t : r.alias = a => r.id = id

NoRes == [err |-> NoError, id |-> 0, url |-> ""]

\* mutant: the arguments of Exec are bound in the order (alias, url, ...)
SaveURLSwapped(t, u, a, tm) ==
    LET id == NextRowid(t) IN
    IF \A r \in t : r.alias # u
    THEN [table |-> t \cup {[id |-> id, alias |-> u, url |-> a,
                             created_at |-> tm, updated_at |-> tm]},
          res   |-> [err |-> NoError, id |-> id, url |-> ""]]
    ELSE [table |-> t,
          res   |-> [err |-> ErrURLAlreadyExists, id |-> 0, url |-> ""]]

\* mutant: INSERT OR REPLACE INTO url(...)
SaveURLReplace(t, u, a, tm) ==
    LET kept == t \ RowsWithAlias(t, a)
        id   == NextRowid(kept)
    IN  [table |-> kept \cup {[id |-> id, alias |-> a, url |-> u,
                               created_at |-> tm, updated_at |-> tm]},
         res   |-> [err |-> NoError, id |-> id, url |-> ""]]

\* INSERT INTO url(url, alias, created_at, updated_at) VALUES(?, ?, ?, ?)
\* and the translation of its outcome to SaveURL's results
SaveURLResult(t, u, a, tm) ==
    LET id == NextRowid(t) IN
    IF UniqueOK(t, id, a)
    THEN [table |-> t \cup {[id |-> id, alias |-> a, url |-> u,
                             created_at |-> tm, updated_at |-> tm]},
          res   |-> [err |-> NoError, id |-> id, url |-> ""]]
    ELSE [table |-> t,
          res   |-> [err |-> ErrURLAlreadyExists, id |-> 0, url |-> ""]]

\* mutant: sql.ErrNoRows is not recognised and is wrapped like any other error
GetURLNoRowsWrapped(t, a) ==
    IF RowsWithAlias(t, a) = {}
    THEN {[err |-> "sql.ErrNoRows", id |-> 0, url |-> ""]}
    ELSE {[err |-> NoError, id |-> 0, url |-> r.url] : r \in RowsWithAlias(t, a)}

\* SELECT url FROM url WHERE alias = ?  ; QueryRow(...).Scan: the first row,
\* sql.ErrNoRows when there is none.  The set of results GetURL can return.
GetURLResults(t, a) ==
    IF RowsWithAlias(t, a) = {}
    THEN {[err |-> ErrURLNotFound, id |-> 0, url |-> ""]}
    ELSE {[err |-> NoError, id |-> 0, url |-> r.url] : r \in RowsWithAlias(t, a)}

\* mutant: RowsAffected() = 0 is reported as ErrURLNotFound
DeleteURLStrict(t, a) ==
    IF RowsWithAlias(t, a) = {}
    THEN [table |-> t, res |-> [err |-> ErrURLNotFound, id |-> 0, url |-> ""]]
    ELSE [table |-> t \ RowsWithAlias(t, a), res |-> NoRes]

\* DELETE FROM url WHERE alias = ?  ; the affected-row count is not read
DeleteURLResult(t, a) ==
    [table |-> t \ RowsWithAlias(t, a), res |-> NoRes]

\* mutant: the arguments of Exec are bound in the order (oldAlias, timestamp, newAlias)
UpdateAliasSwapped(t, old, new, tm) ==
    LET hit   == RowsWithAlias(t, new)
        moved == {[r EXCEPT !.alias = old, !.updated_at = tm] : r \in hit}
        after == (t \ hit) \cup moved
    IN  IF \A r \in moved : \A x \in after : x.alias = old => x.id = r.id
        THEN [table |-> after, res |-> NoRes]
        ELSE [table |-> t,
              res   |-> [err |-> ErrConstraintUnique, id |-> 0, url |-> ""]]

\* mutant: rename as DELETE then INSERT; this is the table after the DELETE
UpdateAliasDeleteFirst(t, old, new, tm) ==
    [table |-> t \ RowsWithAlias(t, old), res |-> NoRes]

\* mutant: RowsAffected() = 0 is reported as ErrURLNotFound
UpdateAliasStrict(t, old, new, tm) ==
    LET hit   == RowsWithAlias(t, old)
        moved == {[r EXCEPT !.alias = new, !.updated_at = tm] : r \in hit}
        after == (t \ hit) \cup moved
    IN  IF hit = {}
        THEN [table |-> t, res |-> [err |-> ErrURLNotFound, id |-> 0, url |-> ""]]
        ELSE IF \A r \in moved : \A x \in after : x.alias = new => x.id = r.id
        THEN [table |-> after, res |-> NoRes]
        ELSE [table |-> t,
              res   |-> [err |-> ErrConstraintUnique, id |-> 0, url |-> ""]]

\* mutant: UPDATE url SET alias = ? WHERE alias = ?  (updated_at forgotten)
UpdateAliasKeepStamp(t, old, new, tm) ==
    LET hit   == RowsWithAlias(t, old)
        moved == {[r EXCEPT !.alias = new] : r \in hit}
        after == (t \ hit) \cup moved
    IN  IF \A r \in moved : \A x \in after : x.alias = new => x.id = r.id
        THEN [table |-> after, res |-> NoRes]
        ELSE [table |-> t,
              res   |-> [err |-> ErrConstraintUnique, id |-> 0, url |-> ""]]

\* mutant: UPDATE OR REPLACE url SET ...: a row in the way is deleted
UpdateAliasReplace(t, old, new, tm) ==
    LET hit   == RowsWithAlias(t, old)
        moved == {[r EXCEPT !.alias = new, !.updated_at = tm] : r \in hit}
    IN  IF hit = {}
        THEN [table |-> t, res |-> NoRes]
        ELSE [table |-> (t \ (hit \cup RowsWithAlias(t, new))) \cup moved, res |-> NoRes]

\* UPDATE url SET alias = ?, updated_at = ? WHERE alias = ?
\* One statement: it either rewrites every matching row or, when a rewritten
\* row would break UNIQUE(alias), fails and changes nothing.
UpdateAliasResult(t, old, new, tm) ==
    LET hit   == RowsWithAlias(t, old)
        moved == {[r EXCEPT !.alias = new, !.updated_at = tm] : r \in hit}
        after == (t \ hit) \cup moved
    IN  IF \A r \in moved : UniqueOK(after, r.id, new)
        THEN [table |-> after, res |-> NoRes]
        ELSE [table |-> t,
              res   |-> [err |-> ErrConstraintUnique, id |-> 0, url |-> ""]]

\* ------------------------------------------------ random.GenerateRandomString
\* charset := []rune("abcdefghijklmnopqrstuvwxyz0123456789")
charset ==
    << "a", "b", "c", "d", "e", "f", "g", "h", "i", "j", "k", "l", "m",
       "n", "o", "p", "q", "r", "s", "t", "u", "v", "w", "x", "y", "z",
       "0", "1", "2", "3", "4", "5", "6", "7", "8", "9" >>

\* the values random.Intn(len(charset)) can return
Intn == 0..(Len(charset) - 1)

\* the zero rune that make([]rune, length) fills the slice with
NUL == "\\x00"

\* mutant: the loop starts at index 1 and leaves result[0] as make() set it
RunesSkipFirst(length, draws) ==
    [i \in 1..length |-> IF i = 1 THEN NUL ELSE charset[draws[i] + 1]]

\* result := make([]rune, length); for i := range result { result[i] =
\* charset[random.Intn(len(charset))] }, where draws[i] is the i-th value
\* that Intn returns
Runes(length, draws) ==
    [i \in 1..length |-> charset[draws[i] + 1]]

\* string(result)
RECURSIVE String(_)
String(runes) ==
    IF Len(runes) = 0 THEN ""
    ELSE String(SubSeq(runes, 1, Len(runes) - 1)) \o runes[Len(runes)]

GenerateRandomString(length, draws) == String(Runes(length, draws))

NoGen == [length |-> 0, draws |-> << >>, runes |-> << >>, out |-> "", pc |-> "none"]

\* ------------------------------------------------------------------ Init
NoCall == [fn |-> "none", a1 |-> "", a2 |-> ""]

NoReq == [h |-> "none", body |-> "none", url |-> "", alias |-> "", new_alias |-> ""]

NoResp == [status |-> "none", error |-> "", alias |-> "", location |-> ""]

NoScript == [name |-> "none", calls |-> << >>, pos |-> 0, out |-> << >>]

\* sqlite.New on a fresh database file: CREATE TABLE IF NOT EXISTS url(...)
Init ==
    /\ table = {}
    /\ now = 0
    /\ pc = [p \in Procs |-> "idle"]
    /\ call = [p \in Procs |-> NoCall]
    /\ stamp = [p \in Procs |-> 0]
    /\ res = [p \in Procs |-> NoRes]
    /\ everIds = {}
    /\ req = [p \in Procs |-> NoReq]
    /\ resp = [p \in Procs |-> NoResp]
    /\ gen = NoGen
    /\ script = NoScript

\* --------------------------------------------------------------- actions
\* A caller enters a store method: s.db.Prepare(...) and, in SaveURL and
\* UpdateAlias, timestamp := time.Now().Unix().
Enter(p, fn, a1, a2) ==
    /\ pc[p] \in {"idle", "done"}
    /\ pc' = [pc EXCEPT ![p] = "exec"]
    /\ call' = [call EXCEPT ![p] = [fn |-> fn, a1 |-> a1, a2 |-> a2]]
    /\ stamp' = [stamp EXCEPT ![p] = IF fn \in {"SaveURL", "UpdateAlias"} THEN now ELSE 0]
    /\ res' = [res EXCEPT ![p] = NoRes]
    /\ UNCHANGED <<table, now, everIds>>
    /\ UNCHANGED hvars

CallSaveURL(p) ==
    /\ NextRowid(table) <= MaxId
    /\ \E u \in Targets, a \in Aliases : Enter(p, "SaveURL", u, a)

CallGetURL(p) == \E a \in Aliases : Enter(p, "GetURL", a, "")

CallDeleteURL(p) == \E a \in Aliases : Enter(p, "DeleteURL", a, "")

CallUpdateAlias(p) == \E old \in Aliases, new \in Aliases : Enter(p, "UpdateAlias", old, new)

Finish(p, t, r) ==
    /\ table' = t
    /\ res' = [res EXCEPT ![p] = r]
    /\ pc' = [pc EXCEPT ![p] = "done"]
    /\ everIds' = everIds \cup Ids(t)
    /\ UNCHANGED <<now, call, stamp>>
    /\ UNCHANGED hvars

\* statement.Exec(url, alias, timestamp, timestamp) and the return
SaveURL(p) ==
    /\ pc[p] = "exec" /\ call[p].fn = "SaveURL"
    /\ NextRowid(table) <= MaxId
    /\ LET o == SaveURLResult(table, call[p].a1, call[p].a2, stamp[p])
       IN  Finish(p, o.table, o.res)

\* mutant: the lookup also stamps the row it reads
GetURLTouch(p) ==
    /\ pc[p] = "exec" /\ call[p].fn = "GetURL"
    /\ \E r \in GetURLResults(table, call[p].a1) :
          Finish(p, {IF x.alias = call[p].a1 THEN [x EXCEPT !.updated_at = now] ELSE x : x \in table}, r)

\* statement.QueryRow(alias).Scan(&resultURL) and the return
GetURL(p) ==
    /\ pc[p] = "exec" /\ call[p].fn = "GetURL"
    /\ \E r \in GetURLResults(table, call[p].a1) : Finish(p, table, r)

\* statement.Exec(alias) and the return
DeleteURL(p) ==
    /\ pc[p] = "exec" /\ call[p].fn = "DeleteURL"
    /\ LET o == DeleteURLResult(table, call[p].a1)
       IN  Finish(p, o.table, o.res)

\* statement.Exec(newAlias, timestamp, oldAlias) and the return
UpdateAlias(p) ==
    /\ pc[p] = "exec" /\ call[p].fn = "UpdateAlias"
    /\ LET o == UpdateAliasResult(table, call[p].a1, call[p].a2, stamp[p])
       IN  Finish(p, o.table, o.res)

\* The engine fails the call: s.db.Prepare, statement.Exec or Scan returns an
\* error that is neither a constraint violation nor sql.ErrNoRows.  The
\* statement has no effect and the method returns the wrapped error.
StoreFails(p) ==
    /\ pc[p] = "exec"
    /\ Finish(p, table, [err |-> ErrStoreFailure, id |-> 0, url |-> ""])

\* SaveURL: statement.Exec has inserted the row and result.LastInsertId()
\* returns an error: "failed to get last insert id" is returned.
LastInsertIdFails(p) ==
    /\ pc[p] = "exec" /\ call[p].fn = "SaveURL"
    /\ NextRowid(table) <= MaxId
    /\ LET o == SaveURLResult(table, call[p].a1, call[p].a2, stamp[p])
       IN  /\ o.res.err = NoError
           /\ Finish(p, o.table, [err |-> ErrStoreFailure, id |-> 0, url |-> ""])

\* the wall clock advances
Tick ==
    /\ now < MaxTime
    /\ now' = now + 1
    /\ UNCHANGED <<table, pc, call, stamp, res, everIds>>
    /\ UNCHANGED hvars

\* ------------------------------------------- fixed sequences of store calls
\* The calls of a script are made one after the other by one caller on a
\* store nobody else uses; each call reads the clock and runs its statement.
Call(fn, a1, a2) == [fn |-> fn, a1 |-> a1, a2 |-> a2]

\* the call the script makes next
Cur == script.calls[script.pos + 1]

\* the call returns r and leaves the table t
Advance(t, r) ==
    /\ table' = t
    /\ everIds' = everIds \cup Ids(t)
    /\ script' = [script EXCEPT !.pos = @ + 1, !.out = Append(@, r)]
    /\ UNCHANGED <<now, pc, call, stamp, res, req, resp, gen>>

RunSaveURL ==
    /\ script.pos < Len(script.calls) /\ Cur.fn = "SaveURL"
    /\ LET o == SaveURLResult(table, Cur.a1, Cur.a2, now)
       IN  Advance(o.table, o.res)

RunGetURL ==
    /\ script.pos < Len(script.calls) /\ Cur.fn = "GetURL"
    /\ \E r \in GetURLResults(table, Cur.a1) : Advance(table, r)

RunDeleteURL ==
    /\ script.pos < Len(script.calls) /\ Cur.fn = "DeleteURL"
    /\ LET o == DeleteURLResult(table, Cur.a1)
       IN  Advance(o.table, o.res)

RunUpdateAlias ==
    /\ script.pos < Len(script.calls) /\ Cur.fn = "UpdateAlias"
    /\ LET o == UpdateAliasResult(table, Cur.a1, Cur.a2, now)
       IN  Advance(o.table, o.res)

\* what one caller can do
Step(p) ==
    \/ CallSaveURL(p)
    \/ CallGetURL(p)
    \/ CallDeleteURL(p)
    \/ CallUpdateAlias(p)
    \/ SaveURL(p)
    \/ GetURL(p)
    \/ DeleteURL(p)
    \/ UpdateAlias(p)

\* One caller at a time (each call returns before the next is made), with
\* the clock running.
Next == Step("g1") \/ Tick

Spec == Init /\ [][Next]_vars

\* Concurrent callers, one goroutine per request.  The clock only feeds the
\* created_at/updated_at columns, which no statement reads, so it stands
\* still here.
NextConc == \E p \in Procs : Step(p)

SpecConc == Init /\ [][NextConc]_vars

\* One caller at a time on an engine that can fail.
NextFault == Next \/ StoreFails("g1") \/ LastInsertIdFails("g1")

SpecFault == Init /\ [][NextFault]_vars

\* ------------------------------------------------------- the HTTP handlers
AliasLength == 5

\* the values the random source returns during one GenerateRandomString(5):
\* they spell "abcde" and "newer"
Draws == { <<0, 1, 2, 3, 4>>, <<13, 4, 22, 4, 17>> }

\* validate:"required,url": the strings the validator accepts as a URL
IsURL(u) == u \in Targets

URLInputs == Targets \cup {"", "not a url"}

AliasInputs == Aliases \cup {""}

\* a client-supplied alias outside ASCII: three characters, each of two
\* bytes in UTF-8
Wide == "ééé"

NewAliasInputs == AliasInputs \cup {Wide}

\* Go's len of a string: the number of bytes of its UTF-8 encoding (Len is
\* the number of characters)
len(s) == IF s = Wide THEN 6 ELSE Len(s)

\* POST /v1/url with no body, with a body that is not JSON, or with
\* {"url": ..., "alias": ...} (a missing field decodes to "")
SaveRequests ==
    {[h |-> "save", body |-> b, url |-> "", alias |-> "", new_alias |-> ""] :
        b \in {"empty", "malformed"}}
    \cup {[h |-> "save", body |-> "json", url |-> u, alias |-> a, new_alias |-> ""] :
        u \in URLInputs, a \in AliasInputs}

\* GET /v1/{alias}
RedirectRequests ==
    {[h |-> "redirect", body |-> "none", url |-> "", alias |-> a, new_alias |-> ""] :
        a \in AliasInputs}

\* DELETE /v1/url/{alias}
DeleteRequests ==
    {[h |-> "delete", body |-> "none", url |-> "", alias |-> a, new_alias |-> ""] :
        a \in AliasInputs}

\* PATCH /v1/url/{alias} with no body, a body that is not JSON, or {"new_alias": ...}
UpdateRequests ==
    {[h |-> "update", body |-> b, url |-> "", alias |-> a, new_alias |-> ""] :
        b \in {"empty", "malformed"}, a \in AliasInputs}
    \cup {[h |-> "update", body |-> "json", url |-> "", alias |-> a, new_alias |-> n] :
        a \in AliasInputs, n \in NewAliasInputs}

\* resp.OK() with the alias, resp.Error(msg), http.Redirect(.., StatusFound),
\* w.WriteHeader(http.StatusOK)
RespOK(alias) == [status |-> "ok", error |-> "", alias |-> alias, location |-> ""]

RespError(msg) == [status |-> "error", error |-> msg, alias |-> "", location |-> ""]

RespFound(target) == [status |-> "302", error |-> "", alias |-> "", location |-> target]

RespStatusOK == [status |-> "200", error |-> "", alias |-> "", location |-> ""]

\* what a handler does before it answers: it rejects the request, or calls
\* one method of the store
Reject(msg) == [kind |-> "reject", msg |-> msg, call |-> NoCall]

Invoke(fn, a1, a2) == [kind |-> "call", msg |-> "", call |-> [fn |-> fn, a1 |-> a1, a2 |-> a2]]

\* mutant: the alias is generated whether or not the client sent one
saveAliasHandlerAlwaysGenerates(r, draws) ==
    IF r.body = "empty" THEN Reject("empty request")
    ELSE IF r.body = "malformed" THEN Reject("failed to decode request")
    ELSE IF r.url = "" THEN Reject("\"URL\" field is mandatory")
    ELSE IF ~IsURL(r.url) THEN Reject("\"URL\" is not a valid URL")
    ELSE Invoke("SaveURL", r.url, GenerateRandomString(AliasLength, draws))

\* saveAliasHandler up to the call of ro.storage.SaveURL
saveAliasHandlerDecide(r, draws) ==
    IF r.body = "empty" THEN Reject("empty request")
    ELSE IF r.body = "malformed" THEN Reject("failed to decode request")
    ELSE IF r.url = "" THEN Reject("\"URL\" field is mandatory")
    ELSE IF ~IsURL(r.url) THEN Reject("\"URL\" is not a valid URL")
    ELSE Invoke("SaveURL", r.url,
                IF r.alias = "" THEN GenerateRandomString(AliasLength, draws) ELSE r.alias)

\* redirectHandler up to the call of ro.storage.GetURL
redirectHandlerDecide(r) ==
    IF r.alias = "" THEN Reject("invalid request")
    ELSE Invoke("GetURL", r.alias, "")

\* deleteAliasHandler up to the call of ro.storage.DeleteURL
deleteAliasHandlerDecide(r) ==
    IF r.alias = "" THEN Reject("invalid request")
    ELSE Invoke("DeleteURL", r.alias, "")

\* mutant: the length check is missing
updateAliasHandlerNoLengthCheck(r) ==
    IF r.alias = "" THEN Reject("invalid request")
    ELSE IF r.body = "empty" THEN Reject("empty request")
    ELSE IF r.body = "malformed" THEN Reject("failed to decode request")
    ELSE IF r.new_alias = "" THEN Reject("\"NewAlias\" field is mandatory")
    ELSE IF r.new_alias = r.alias THEN Reject("new alias is the same as the old one")
    ELSE Invoke("UpdateAlias", r.alias, r.new_alias)

\* updateAliasHandler up to the call of ro.storage.UpdateAlias; an empty
\* new_alias fails validate:"required" before the handler's own check of it
updateAliasHandlerDecide(r) ==
    IF r.alias = "" THEN Reject("invalid request")
    ELSE IF r.body = "empty" THEN Reject("empty request")
    ELSE IF r.body = "malformed" THEN Reject("failed to decode request")
    ELSE IF r.new_alias = "" THEN Reject("\"NewAlias\" field is mandatory")
    ELSE IF len(r.new_alias) < AliasLength THEN Reject("invalid request: new alias is too short")
    ELSE IF r.new_alias = r.alias THEN Reject("new alias is the same as the old one")
    ELSE Invoke("UpdateAlias", r.alias, r.new_alias)

\* mutant: err == storage.ErrURLAlreadyExists instead of errors.Is: the
\* wrapped error is not recognised
saveAliasHandlerRespondNoUnwrap(c, rs) ==
    IF rs.err # NoError THEN RespError("failed to save url")
    ELSE RespOK(c.a2)

\* saveAliasHandler after ro.storage.SaveURL has returned
saveAliasHandlerRespond(c, rs) ==
    IF rs.err = ErrURLAlreadyExists THEN RespError("url already exists")
    ELSE IF rs.err # NoError THEN RespError("failed to save url")
    ELSE RespOK(c.a2)

\* mutant: the ErrURLNotFound branch does not return
redirectHandlerRespondFallsThrough(c, rs) ==
    IF rs.err = ErrURLNotFound THEN RespFound(rs.url)
    ELSE IF rs.err # NoError THEN RespError("internal error")
    ELSE RespFound(rs.url)

\* redirectHandler after ro.storage.GetURL has returned
redirectHandlerRespond(c, rs) ==
    IF rs.err = ErrURLNotFound THEN RespError("url not found for given alias")
    ELSE IF rs.err # NoError THEN RespError("internal error")
    ELSE RespFound(rs.url)

\* deleteAliasHandler after ro.storage.DeleteURL has returned
deleteAliasHandlerRespond(c, rs) ==
    IF rs.err # NoError THEN RespError("internal error")
    ELSE RespStatusOK

\* updateAliasHandler after ro.storage.UpdateAlias has returned
updateAliasHandlerRespond(c, rs) ==
    IF rs.err # NoError THEN RespError("internal error")
    ELSE RespOK(c.a2)

\* The handler's goroutine serves request r: it answers at once when it
\* rejects the request, and otherwise enters the store method (Prepare, and
\* the clock read of SaveURL and UpdateAlias).
Serve(p, r, d) ==
    /\ pc[p] \in {"idle", "replied"}
    /\ req' = [req EXCEPT ![p] = r]
    /\ call' = [call EXCEPT ![p] = d.call]
    /\ res' = [res EXCEPT ![p] = NoRes]
    /\ IF d.kind = "reject"
       THEN /\ pc' = [pc EXCEPT ![p] = "replied"]
            /\ resp' = [resp EXCEPT ![p] = RespError(d.msg)]
            /\ stamp' = [stamp EXCEPT ![p] = 0]
       ELSE /\ pc' = [pc EXCEPT ![p] = "exec"]
            /\ resp' = [resp EXCEPT ![p] = NoResp]
            /\ stamp' = [stamp EXCEPT ![p] =
                            IF d.call.fn \in {"SaveURL", "UpdateAlias"} THEN now ELSE 0]
    /\ UNCHANGED <<table, now, everIds, gen, script>>

\* the random source is read only when the request reaches
\* GenerateRandomString
DrawsFor(r) ==
    IF r.body = "json" /\ r.url # "" /\ IsURL(r.url) /\ r.alias = ""
    THEN Draws ELSE {<<0, 1, 2, 3, 4>>}

saveAliasHandler(p) ==
    \E r \in SaveRequests : \E draws \in DrawsFor(r) :
        LET d == saveAliasHandlerDecide(r, draws)
        IN  /\ d.kind = "call" => NextRowid(table) <= MaxId
            /\ Serve(p, r, d)

redirectHandler(p) ==
    \E r \in RedirectRequests : Serve(p, r, redirectHandlerDecide(r))

deleteAliasHandler(p) ==
    \E r \in DeleteRequests : Serve(p, r, deleteAliasHandlerDecide(r))

updateAliasHandler(p) ==
    \E r \in UpdateRequests : Serve(p, r, updateAliasHandlerDecide(r))

\* mutant: on ErrURLAlreadyExists for an alias it generated, the save
\* handler generates another alias and calls SaveURL again
RespondRetries(p) ==
    /\ pc[p] = "done" /\ req[p].h # "none"
    /\ IF req[p].h = "save" /\ req[p].alias = "" /\ res[p].err = ErrURLAlreadyExists
       THEN /\ \E d \in Draws :
                 call' = [call EXCEPT ![p].a2 = GenerateRandomString(AliasLength, d)]
            /\ pc' = [pc EXCEPT ![p] = "exec"]
            /\ UNCHANGED <<table, now, stamp, res, everIds, req, resp, gen, script>>
       ELSE /\ resp' = [resp EXCEPT ![p] =
                  CASE req[p].h = "save"     -> saveAliasHandlerRespond(call[p], res[p])
                    [] req[p].h = "redirect" -> redirectHandlerRespond(call[p], res[p])
                    [] req[p].h = "delete"   -> deleteAliasHandlerRespond(call[p], res[p])
                    [] req[p].h = "update"   -> updateAliasHandlerRespond(call[p], res[p])]
            /\ pc' = [pc EXCEPT ![p] = "replied"]
            /\ UNCHANGED <<table, now, call, stamp, res, everIds, req, gen, script>>

\* the store method has returned: the handler classifies the result and
\* writes its response
Respond(p) ==
    /\ pc[p] = "done" /\ req[p].h # "none"
    /\ resp' = [resp EXCEPT ![p] =
                  CASE req[p].h = "save"     -> saveAliasHandlerRespond(call[p], res[p])
                    [] req[p].h = "redirect" -> redirectHandlerRespond(call[p], res[p])
                    [] req[p].h = "delete"   -> deleteAliasHandlerRespond(call[p], res[p])
                    [] req[p].h = "update"   -> updateAliasHandlerRespond(call[p], res[p])]
    /\ pc' = [pc EXCEPT ![p] = "replied"]
    /\ UNCHANGED <<table, now, call, stamp, res, everIds, req, gen, script>>

\* The server handling one request after the other, on an engine that can
\* fail.  The clock stands still: no handler reads it, and the timestamps
\* the store writes are covered by Spec.
NextHTTP ==
    \/ saveAliasHandler("g1")
    \/ redirectHandler("g1")
    \/ deleteAliasHandler("g1")
    \/ updateAliasHandler("g1")
    \/ SaveURL("g1")
    \/ GetURL("g1")
    \/ DeleteURL("g1")
    \/ UpdateAlias("g1")
    \/ StoreFails("g1")
    \/ LastInsertIdFails("g1")
    \/ Respond("g1")

SpecHTTP == Init /\ [][NextHTTP]_vars

\* ---------------------------------------------------------- the scripts
\* the aliases random.GenerateRandomString(AliasLength) returns on Draws
Generated == {GenerateRandomString(AliasLength, d) : d \in Draws}

\* save under a generated alias x, look up, save again under x, rename x to
\* "newer", look up both, delete "newer", look up
HappyPath(a, b, x) ==
    << Call("SaveURL", a, x), Call("GetURL", x, ""), Call("SaveURL", b, x),
       Call("UpdateAlias", x, "newer"), Call("GetURL", "newer", ""),
       Call("GetURL", x, ""), Call("DeleteURL", "newer", ""),
       Call("GetURL", "newer", "") >>

\* save under A, delete A, save under A again, look up
SaveAfterDelete(t1, t2, A) ==
    << Call("SaveURL", t1, A), Call("DeleteURL", A, ""), Call("SaveURL", t2, A),
       Call("GetURL", A, "") >>

\* save under A, rename A to B, save under A again, look up both
SaveAfterRename(t1, t2, A, B) ==
    << Call("SaveURL", t1, A), Call("UpdateAlias", A, B), Call("SaveURL", t2, A),
       Call("GetURL", A, ""), Call("GetURL", B, "") >>

Scripts ==
    {[name |-> "HappyPath", calls |-> HappyPath(a, b, x), pos |-> 0, out |-> << >>] :
        a \in Targets, b \in Targets, x \in Generated}
    \cup {[name |-> "SaveAfterDelete", calls |-> SaveAfterDelete(t1, t2, A),
           pos |-> 0, out |-> << >>] :
        t1 \in Targets, t2 \in Targets, A \in Aliases}
    \cup {[name |-> "SaveAfterRename", calls |-> SaveAfterRename(t1, t2, c[1], c[2]),
           pos |-> 0, out |-> << >>] :
        t1 \in Targets, t2 \in Targets,
        c \in {d \in Aliases \X Aliases : d[1] # d[2]}}

\* sqlite.New on a fresh database file, and a script about to run
InitScript ==
    /\ table = {}
    /\ now = 0
    /\ pc = [p \in Procs |-> "idle"]
    /\ call = [p \in Procs |-> NoCall]
    /\ stamp = [p \in Procs |-> 0]
    /\ res = [p \in Procs |-> NoRes]
    /\ everIds = {}
    /\ req = [p \in Procs |-> NoReq]
    /\ resp = [p \in Procs |-> NoResp]
    /\ gen = NoGen
    /\ script \in Scripts

NextScript ==
    \/ RunSaveURL
    \/ RunGetURL
    \/ RunDeleteURL
    \/ RunUpdateAlias
    \/ Tick

SpecScript == InitScript /\ [][NextScript]_vars

\* GenerateRandomString applied to every length in 0..MaxLen and every
\* sequence of values the random source can return.
InitGen ==
    /\ table = {}
    /\ now = 0
    /\ pc = [p \in Procs |-> "idle"]
    /\ call = [p \in Procs |-> NoCall]
    /\ stamp = [p \in Procs |-> 0]
    /\ res = [p \in Procs |-> NoRes]
    /\ everIds = {}
    /\ req = [p \in Procs |-> NoReq]
    /\ resp = [p \in Procs |-> NoResp]
    /\ script = NoScript
    /\ \E length \in 0..MaxLen : \E draws \in [1..length -> Intn] :
          gen = [length |-> length, draws |-> draws, runes |-> << >>, out |-> "",
                 pc |-> "called"]

Generate ==
    /\ gen.pc = "called"
    /\ gen' = [gen EXCEPT !.runes = Runes(gen.length, gen.draws),
                          !.out = GenerateRandomString(gen.length, gen.draws),
                          !.pc = "returned"]
    /\ UNCHANGED <<table, now, pc, call, stamp, res, everIds, req, resp, script>>

NextGen == Generate

SpecGen == InitGen /\ [][NextGen]_vars

\* ---------------------------------------------------------------- claims
\* p's statement is executed in this step (an action-level abbreviation)
Executes(p, fn) == pc[p] = "exec" /\ call[p].fn = fn /\ pc'[p] = "done"

\* GetURL's results
Found(u) == [err |-> NoError, id |-> 0, url |-> u]

NotFound == [err |-> ErrURLNotFound, id |-> 0, url |-> ""]

TypeOK ==
    /\ \A r \in table : r.id \in 1..MaxId /\ r.alias \in Aliases \cup {Wide} /\ r.url \in Targets
    /\ now \in 0..MaxTime

\* C1: in every state reachable by any interleaving of SaveURL, UpdateAlias
\* and DeleteURL calls, no two rows of the table carry the same alias.
C1_AliasUnique ==
    \A r1 \in table, r2 \in table : r1.alias = r2.alias => r1 = r2

\* two rows are live, one caller was refused a save and the other a rename
\* for the sake of uniqueness
C1_Witness ==
    /\ Cardinality(table) >= 2
    /\ \E p \in Procs, q \in Procs :
          /\ pc[p] = "done" /\ call[p].fn = "SaveURL" /\ res[p].err = ErrURLAlreadyExists
          /\ pc[q] = "done" /\ call[q].fn = "UpdateAlias" /\ res[q].err = ErrConstraintUnique

\* C2: SaveURL(target, alias) on an alias that is not live succeeds, and
\* GetURL(alias) on the state it leaves returns exactly target.
C2_SaveThenGet ==
    [][\A p \in Procs :
         (Executes(p, "SaveURL") /\ ~Live(table, call[p].a2)) =>
            /\ res'[p].err = NoError
            /\ GetURLResults(table', call[p].a2) = {Found(call[p].a1)}]_vars

\* a save has just succeeded next to another live mapping with the other target
C2_Witness ==
    \E p \in Procs :
        /\ pc[p] = "done" /\ call[p].fn = "SaveURL" /\ res[p].err = NoError
        /\ GetURLResults(table, call[p].a2) = {Found(call[p].a1)}
        /\ \E r \in table : r.alias # call[p].a2 /\ r.url # call[p].a1

\* C3: SaveURL(target2, alias) on a live alias fails with ErrURLAlreadyExists,
\* creates no row and leaves every row (id, target, timestamps) as it was, so
\* GetURL(alias) still returns the first target.
C3_SaveLiveAlias ==
    [][\A p \in Procs :
         (Executes(p, "SaveURL") /\ Live(table, call[p].a2)) =>
            /\ res'[p].err = ErrURLAlreadyExists
            /\ table' = table
            /\ GetURLResults(table', call[p].a2) = GetURLResults(table, call[p].a2)]_vars

\* a save of another target was refused, at a later time than the first save
C3_Witness ==
    \E p \in Procs :
        /\ pc[p] = "done" /\ call[p].fn = "SaveURL" /\ res[p].err = ErrURLAlreadyExists
        /\ \E r \in table : r.alias = call[p].a2 /\ r.url # call[p].a1
                              /\ r.created_at < stamp[p]

\* C4: GetURL(alias) on an alias that is not live (never saved, deleted, or
\* renamed away) returns ErrURLNotFound and no target.
C4_GetNotLive ==
    [][\A p \in Procs :
         (Executes(p, "GetURL") /\ ~Live(table, call[p].a1)) =>
            res'[p] = NotFound]_vars

\* a lookup failed with NotFound on a store that holds a mapping and has
\* deleted one
C4_Witness ==
    \E p \in Procs :
        /\ pc[p] = "done" /\ call[p].fn = "GetURL" /\ res[p] = NotFound
        /\ table # {} /\ everIds \ Ids(table) # {}

\* C5: after UpdateAlias(oldAlias, newAlias) with oldAlias live and newAlias
\* not live, the call has succeeded, GetURL(oldAlias) is NotFound and
\* GetURL(newAlias) returns the target oldAlias had.
C5_Rename ==
    [][\A p \in Procs :
         (Executes(p, "UpdateAlias") /\ Live(table, call[p].a1) /\ ~Live(table, call[p].a2)) =>
            /\ res'[p].err = NoError
            /\ GetURLResults(table', call[p].a1) = {NotFound}
            /\ GetURLResults(table', call[p].a2) = GetURLResults(table, call[p].a1)]_vars

\* a rename has succeeded: the new alias resolves, the old one does not
C5_Witness ==
    \E p \in Procs :
        /\ pc[p] = "done" /\ call[p].fn = "UpdateAlias" /\ res[p].err = NoError
        /\ call[p].a1 # call[p].a2
        /\ ~Live(table, call[p].a1) /\ Live(table, call[p].a2)
        /\ \E r \in table : r.alias = call[p].a2 /\ r.updated_at > r.created_at

\* C6: DeleteURL is idempotent: it never returns an error; on a live alias it
\* leaves GetURL(alias) NotFound; on an alias that is not live it leaves the
\* table unchanged.
C6_DeleteIdempotent ==
    [][\A p \in Procs :
         Executes(p, "DeleteURL") =>
            /\ res'[p].err = NoError
            /\ GetURLResults(table', call[p].a1) = {NotFound}
            /\ ~Live(table, call[p].a1) => table' = table
            /\ DeleteURLResult(table', call[p].a1) = [table |-> table', res |-> res'[p]]]_vars

\* a delete has returned nil on a store that holds mappings and from which no
\* row was ever removed: the alias was not live and nothing changed
C6_Witness ==
    \E p \in Procs :
        /\ pc[p] = "done" /\ call[p].fn = "DeleteURL" /\ res[p].err = NoError
        /\ ~Live(table, call[p].a1)
        /\ everIds = Ids(table) /\ Cardinality(table) >= 2

\* C7: while UpdateAlias(oldAlias, newAlias) with oldAlias live and newAlias
\* free is in progress next to readers (and no other writer executes), the
\* mapping under oldAlias is, after every step, under exactly one of the two
\* aliases: under oldAlias until the rename's statement has run, under
\* newAlias from then on; a reader's step leaves the table as it is.
C7_RenameAtomic ==
    [][\A p \in Procs :
         (/\ pc[p] = "exec" /\ call[p].fn = "UpdateAlias"
          /\ Live(table, call[p].a1) /\ ~Live(table, call[p].a2)
          /\ \A q \in Procs \ {p} : ~Executes(q, "SaveURL") /\ ~Executes(q, "DeleteURL")
                                      /\ ~Executes(q, "UpdateAlias"))
         => \A m \in Ids(RowsWithAlias(table, call[p].a1)) :
              LET atOld == m \in Ids(RowsWithAlias(table', call[p].a1))
                  atNew == m \in Ids(RowsWithAlias(table', call[p].a2))
              IN  /\ atOld # atNew
                  /\ atNew <=> pc'[p] = "done"
                  /\ pc'[p] = "exec" => table' = table]_vars

\* a rename has succeeded while a reader of the old alias and of nothing else
\* was between its Prepare and its QueryRow
C7_Witness ==
    \E p \in Procs, q \in Procs :
        /\ pc[p] = "done" /\ call[p].fn = "UpdateAlias" /\ res[p].err = NoError
        /\ call[p].a1 # call[p].a2
        /\ ~Live(table, call[p].a1) /\ Live(table, call[p].a2)
        /\ pc[q] = "exec" /\ call[q].fn = "GetURL" /\ call[q].a1 = call[p].a1

\* C8: when two callers are in SaveURL with the same alias, the one whose
\* INSERT runs first on the non-live alias succeeds, and the other, running
\* while that mapping is live, fails with ErrURLAlreadyExists and changes
\* nothing; exactly one row then carries the alias, with the winner's target.
C8_ConcurrentSave ==
    [][\A p \in Procs, q \in Procs :
         (/\ p # q /\ Executes(p, "SaveURL")
          /\ call[q].fn = "SaveURL" /\ call[q].a2 = call[p].a2)
         => LET a == call[p].a2 IN
            /\ (pc[q] = "exec" /\ ~Live(table, a)) =>
                  /\ res'[p].err = NoError
                  /\ \A r \in RowsWithAlias(table', a) : r.url = call[p].a1 /\ r.id = res'[p].id
                  /\ Cardinality(RowsWithAlias(table', a)) = 1
            /\ (/\ pc[q] = "done" /\ res[q].err = NoError
                /\ \E r \in table : r.id = res[q].id /\ r.alias = a /\ r.url = call[q].a1) =>
                  /\ res'[p].err = ErrURLAlreadyExists
                  /\ table' = table
                  /\ \A r \in RowsWithAlias(table', a) : r.url = call[q].a1
                  /\ Cardinality(RowsWithAlias(table', a)) = 1]_vars

\* both callers have returned from SaveURL of different targets under one
\* alias: one with an id, the other with ErrURLAlreadyExists, and the row
\* holds the winner's target
C8_Witness ==
    \E p \in Procs, q \in Procs :
        /\ p # q /\ pc[p] = "done" /\ pc[q] = "done"
        /\ call[p].fn = "SaveURL" /\ call[q].fn = "SaveURL"
        /\ call[p].a2 = call[q].a2 /\ call[p].a1 # call[q].a1
        /\ res[p].err = NoError /\ res[q].err = ErrURLAlreadyExists
        /\ \E r \in table : r.alias = call[p].a2 /\ r.url = call[p].a1 /\ r.id = res[p].id

\* C9: the id returned by a successful SaveURL differs from the id of every
\* mapping that existed earlier, deleted ones included.
C9_IdNeverReused ==
    [][\A p \in Procs :
         (Executes(p, "SaveURL") /\ res'[p].err = NoError) =>
            res'[p].id \notin everIds]_vars

\* C10: UpdateAlias(oldAlias, newAlias) with both aliases live and different
\* does not succeed and returns ErrURLAlreadyExists.
C10_RenameCollision ==
    [][\A p \in Procs :
         (/\ Executes(p, "UpdateAlias") /\ call[p].a1 # call[p].a2
          /\ Live(table, call[p].a1) /\ Live(table, call[p].a2)) =>
            /\ res'[p].err = ErrURLAlreadyExists
            /\ table' = table]_vars

\* C11: UpdateAlias(oldAlias, newAlias) with oldAlias not live returns nil and
\* changes nothing: no row appears under newAlias and every row keeps its
\* alias, target, id and timestamps.
C11_RenameNotLive ==
    [][\A p \in Procs :
         (Executes(p, "UpdateAlias") /\ ~Live(table, call[p].a1)) =>
            /\ res'[p].err = NoError
            /\ table' = table]_vars

\* a rename of a missing alias onto a live one has returned nil; the row under
\* the new alias is older than the call, so the call did not put it there
C11_Witness ==
    \E p \in Procs :
        /\ pc[p] = "done" /\ call[p].fn = "UpdateAlias" /\ res[p].err = NoError
        /\ call[p].a1 # call[p].a2 /\ ~Live(table, call[p].a1)
        /\ \E r \in table : r.alias = call[p].a2 /\ r.updated_at < stamp[p]

\* C12: a successful UpdateAlias of a live alias rewrites, in place, the alias
\* and updated_at of that one row: id, target and created_at stay, updated_at
\* is the time the call read, and the number of rows is unchanged.
C12_RenameFrame ==
    [][\A p \in Procs :
         (Executes(p, "UpdateAlias") /\ Live(table, call[p].a1) /\ res'[p].err = NoError) =>
            /\ \E r \in table :
                  /\ r.alias = call[p].a1
                  /\ table' = (table \ {r}) \cup
                        {[id |-> r.id, alias |-> call[p].a2, url |-> r.url,
                          created_at |-> r.created_at, updated_at |-> stamp[p]]}
            /\ stamp[p] <= now
            /\ Cardinality(table') = Cardinality(table)]_vars

\* a rename has succeeded next to another row; the renamed row shows a later
\* updated_at than created_at
C12_Witness ==
    \E p \in Procs :
        /\ pc[p] = "done" /\ call[p].fn = "UpdateAlias" /\ res[p].err = NoError
        /\ call[p].a1 # call[p].a2 /\ Cardinality(table) = 2
        /\ \E r \in table : /\ r.alias = call[p].a2 /\ r.updated_at = stamp[p]
                              /\ r.created_at < r.updated_at

\* C13: once GetURL(A) would return target, it keeps returning target over
\* every step other than a DeleteURL(A) or a successful UpdateAlias(A, _):
\* calls on other aliases, refused saves of A, refused renames onto A.  A
\* step in which no call returns leaves the table as it is.
C13_VisibleUntilRemoved ==
    [][IF \A p \in Procs : pc'[p] # "done" \/ pc[p] = "done"
       THEN table' = table
       ELSE \A a \in Aliases, u \in Targets :
              (/\ GetURLResults(table, a) = {Found(u)}
               /\ \A p \in Procs :
                     /\ ~(Executes(p, "DeleteURL") /\ call[p].a1 = a)
                     /\ ~(Executes(p, "UpdateAlias") /\ call[p].a1 = a /\ res'[p].err = NoError))
              => /\ GetURLResults(table', a) = {Found(u)}
                 /\ \A p \in Procs :
                       (Executes(p, "GetURL") /\ call[p].a1 = a) => res'[p] = Found(u)]_vars

\* a lookup has returned the target of an alias onto which another caller's
\* rename was refused
C13_Witness ==
    \E p \in Procs, q \in Procs :
        /\ pc[p] = "done" /\ call[p].fn = "GetURL" /\ res[p].err = NoError
        /\ pc[q] = "done" /\ call[q].fn = "UpdateAlias" /\ res[q].err = ErrConstraintUnique
        /\ call[q].a2 = call[p].a1
        /\ GetURLResults(table, call[p].a1) = {res[p]}

\* C14: GetURL never changes the store: the table is the same before and
\* after the call, whether it returns a target, NotFound or a store failure.
C14_GetURLReadOnly ==
    [][\A p \in Procs :
         (pc[p] = "exec" /\ call[p].fn = "GetURL" /\ pc'[p] = "done") =>
            /\ table' = table
            /\ everIds' = everIds]_vars

\* a lookup has failed with a store failure on a store that holds a mapping
\* under the alias looked up
C14_Witness ==
    \E p \in Procs :
        /\ pc[p] = "done" /\ call[p].fn = "GetURL" /\ res[p].err = ErrStoreFailure
        /\ Live(table, call[p].a1)

\* C15: every store call that returns an error (ErrURLAlreadyExists, a store
\* failure, the failure to read the last insert id included, ErrURLNotFound,
\* a failed UpdateAlias or DeleteURL) leaves the table exactly as it was.
C15_ErrorLeavesStore ==
    [][\A p \in Procs :
         (pc[p] = "exec" /\ pc'[p] = "done" /\ res'[p].err # NoError) =>
            table' = table]_vars

\* the 36-symbol alphabet a-z0-9
Alphabet ==
    {"a", "b", "c", "d", "e", "f", "g", "h", "i", "j", "k", "l", "m", "n", "o",
     "p", "q", "r", "s", "t", "u", "v", "w", "x", "y", "z",
     "0", "1", "2", "3", "4", "5", "6", "7", "8", "9"}

\* C16: for every length >= 0 GenerateRandomString(length) returns a string
\* of exactly length characters, each one of the 36 symbols a-z0-9; length 0
\* gives the empty string.
C16_GeneratedString ==
    gen.pc = "returned" =>
        /\ Len(gen.out) = gen.length
        /\ Len(gen.runes) = gen.length
        /\ \A i \in 1..gen.length : gen.runes[i] \in Alphabet
        /\ gen.length = 0 => gen.out = ""
        /\ Cardinality(Alphabet) = 36

\* a string of MaxLen characters has been returned whose characters differ
C16_Witness ==
    /\ gen.pc = "returned" /\ gen.length = MaxLen /\ Len(gen.out) = MaxLen
    /\ gen.runes[1] # gen.runes[MaxLen]

\* C17: the save handler calls SaveURL with the client's alias unchanged
\* when the request carries a non-empty alias, and with a generated alias of
\* AliasLength (5) characters when it carries none; the alias of the ok
\* response is the alias that was passed to SaveURL.
C17_AliasPassed ==
    \A p \in Procs :
        (req[p].h = "save" /\ call[p].fn = "SaveURL") =>
            /\ call[p].a1 = req[p].url
            /\ req[p].alias # "" => call[p].a2 = req[p].alias
            /\ req[p].alias = "" =>
                  /\ Len(call[p].a2) = AliasLength
                  /\ \E d \in Draws : call[p].a2 = GenerateRandomString(AliasLength, d)
            /\ resp[p].status = "ok" => resp[p].alias = call[p].a2

\* a request without alias has been answered ok with the generated alias
\* "newer", while the store holds a mapping under a client's alias "zz"
C17_Witness ==
    /\ pc["g1"] = "replied" /\ req["g1"].h = "save" /\ req["g1"].alias = ""
    /\ resp["g1"].status = "ok" /\ resp["g1"].alias = "newer"
    /\ Live(table, "newer") /\ Live(table, "zz")

\* the requests C18 names: an update whose body is empty or whose new_alias
\* is missing or empty, shorter than AliasLength characters, or equal to the
\* old alias; a save whose body is empty or whose url is missing or malformed
FailsShapeValidation(r) ==
    \/ /\ r.h = "update"
       /\ \/ r.body = "empty"
          \/ /\ r.body = "json"
             /\ \/ r.new_alias = ""
                \/ Len(r.new_alias) < AliasLength
                \/ r.new_alias = r.alias
    \/ /\ r.h = "save"
       /\ \/ r.body = "empty"
          \/ r.body = "json" /\ (r.url = "" \/ ~IsURL(r.url))

\* C18: a request that fails request-shape validation never reaches the
\* store: the handler answers with an error, makes no UpdateAlias or SaveURL
\* call, and the table is unchanged.
C18_InvalidNeverReachesStore ==
    [][\A p \in Procs :
         (pc[p] \in {"idle", "replied"} /\ FailsShapeValidation(req'[p])) =>
            /\ table' = table
            /\ call'[p] = NoCall
            /\ pc'[p] = "replied"
            /\ resp'[p].status = "error"]_vars

\* C19: the save handler answers "url already exists" when SaveURL returned
\* an error that is or wraps ErrURLAlreadyExists and "failed to save url" on
\* any other error, both with status error and without alias; it answers
\* ok only when SaveURL returned nil.
C19_SaveClassified ==
    \A p \in Procs :
        (pc[p] = "replied" /\ req[p].h = "save" /\ call[p].fn = "SaveURL") =>
            /\ res[p].err = ErrURLAlreadyExists =>
                  resp[p] = RespError("url already exists")
            /\ res[p].err \notin {NoError, ErrURLAlreadyExists} =>
                  resp[p] = RespError("failed to save url")
            /\ res[p].err # NoError => resp[p].status = "error" /\ resp[p].alias = ""
            /\ resp[p].status = "ok" <=> res[p].err = NoError

\* a save under a live alias has been answered "url already exists"
C19_Witness ==
    /\ pc["g1"] = "replied" /\ req["g1"].h = "save"
    /\ res["g1"].err = ErrURLAlreadyExists
    /\ resp["g1"].error = "url already exists"
    /\ Live(table, call["g1"].a2)

HappyPathResults(a) ==
    << [err |-> NoError, id |-> 1, url |-> ""], Found(a),
       [err |-> ErrURLAlreadyExists, id |-> 0, url |-> ""], NoRes, Found(a),
       NotFound, NoRes, NotFound >>

\* the calls the script has made returned what C21 says
AsInHappyPath ==
    \A k \in 1..script.pos : script.out[k] = HappyPathResults(script.calls[1].a1)[k]

\* C21 as stated: from an empty store, SaveURL(a, X) with any generated
\* 5-character alias X, GetURL(X), SaveURL(b, X), UpdateAlias(X, "newer"),
\* GetURL("newer"), GetURL(X), DeleteURL("newer"), GetURL("newer") return
\* success with id 1, a, AlreadyExists, success, a, NotFound, success,
\* NotFound.
C21_HappyPath ==
    script.name = "HappyPath" => AsInHappyPath

\* C21 amended: the same, for every generated alias X other than "newer".
C21_HappyPathOtherAlias ==
    (script.name = "HappyPath" /\ script.calls[1].a2 # "newer") => AsInHappyPath

\* the script has run to its end with the generated alias "abcde" and two
\* different targets, and the store is empty again
C21_Witness ==
    /\ script.name = "HappyPath" /\ script.pos = 8
    /\ script.calls[1].a2 = "abcde" /\ script.calls[1].a1 # script.calls[3].a1
    /\ script.out[6] = NotFound
    /\ table = {}

\* C22: when the alias the save handler generated is already live, the one
\* SaveURL call (on an engine that does not fail) returns
\* ErrURLAlreadyExists and leaves the table as it is, and the handler's
\* next step is the answer "url already exists": it makes no other call.
C22_CollisionNotRetried ==
    [][\A p \in Procs :
         /\ (/\ pc[p] = "exec" /\ pc'[p] = "done"
             /\ req[p].h = "save" /\ req[p].alias = ""
             /\ Live(table, call[p].a2)
             /\ res'[p].err # ErrStoreFailure)
            => /\ res'[p].err = ErrURLAlreadyExists
               /\ table' = table
         /\ (/\ pc[p] = "done"
             /\ req[p].h = "save" /\ req[p].alias = ""
             /\ res[p].err = ErrURLAlreadyExists)
            => /\ pc'[p] = "replied"
               /\ resp'[p] = RespError("url already exists")
               /\ call'[p] = call[p]
               /\ table' = table]_vars

\* a save without alias has been answered "url already exists": the
\* generated alias "abcde" was live, and still maps to the other target
C22_Witness ==
    /\ pc["g1"] = "replied" /\ req["g1"].h = "save" /\ req["g1"].alias = ""
    /\ call["g1"].a2 = "abcde" /\ res["g1"].err = ErrURLAlreadyExists
    /\ resp["g1"] = RespError("url already exists")
    /\ \E r \in table : r.alias = "abcde" /\ r.url # req["g1"].url

\* C23: after DeleteURL(A), or after a successful UpdateAlias(A, B), the
\* call SaveURL(target2, A) succeeds and creates a new mapping distinct from
\* the old one (its id is not the id the first save returned), GetURL(A)
\* returns target2 and, after the rename, GetURL(B) returns the original
\* target.
C23_AliasFreeAgain ==
    /\ (script.name \in {"SaveAfterDelete", "SaveAfterRename"} /\ script.pos >= 3) =>
          /\ script.out[1].err = NoError /\ script.out[2].err = NoError
          /\ script.out[3].err = NoError
          /\ script.out[3].id # script.out[1].id
    /\ (script.name \in {"SaveAfterDelete", "SaveAfterRename"} /\ script.pos >= 4) =>
          script.out[4] = Found(script.calls[3].a1)
    /\ (script.name = "SaveAfterRename" /\ script.pos >= 5) =>
          script.out[5] = Found(script.calls[1].a1)

\* the update handler's store call with a new_alias of at least AliasLength
\* characters, for a path alias that is not live, returns (the engine does
\* not fail)
UpdateOfAbsentReturns(p) ==
    /\ pc[p] = "exec" /\ pc'[p] = "done"
    /\ req[p].h = "update" /\ Len(req[p].new_alias) >= AliasLength
    /\ ~Live(table, call[p].a1)
    /\ res'[p].err # ErrStoreFailure

\* the delete handler's store call for an alias that is not live returns
DeleteOfAbsentReturns(p) ==
    /\ pc[p] = "exec" /\ pc'[p] = "done"
    /\ req[p].h = "delete"
    /\ ~Live(table, call[p].a1)
    /\ res'[p].err # ErrStoreFailure

\* the handler answers a nil result: ok with alias = new_alias for an
\* update, 200 for a delete
AnswersNil(p) ==
    (pc[p] = "done" /\ res[p].err = NoError) =>
        /\ req[p].h = "update" =>
              pc'[p] = "replied" /\ resp'[p] = RespOK(req[p].new_alias)
        /\ req[p].h = "delete" =>
              pc'[p] = "replied" /\ resp'[p] = RespStatusOK

\* C24 as stated: for a path alias that is not live and a well-formed
\* new_alias, UpdateAlias returns nil, the update handler answers ok with
\* alias = new_alias, the table is unchanged and no mapping exists under
\* new_alias; the delete handler answers 200 for an alias that is not live.
C24_OkForAbsentAlias ==
    [][\A p \in Procs :
         /\ UpdateOfAbsentReturns(p) =>
               /\ res'[p].err = NoError /\ table' = table
               /\ ~Live(table', call[p].a2)
         /\ DeleteOfAbsentReturns(p) => res'[p].err = NoError /\ table' = table
         /\ AnswersNil(p)]_vars

\* C24 amended: the same, where no mapping is created under new_alias:
\* new_alias is live afterwards only if it was live before.
C24_OkForAbsentAliasNoneCreated ==
    [][\A p \in Procs :
         /\ UpdateOfAbsentReturns(p) =>
               /\ res'[p].err = NoError /\ table' = table
               /\ Live(table', call[p].a2) => Live(table, call[p].a2)
         /\ DeleteOfAbsentReturns(p) => res'[p].err = NoError /\ table' = table
         /\ AnswersNil(p)]_vars

\* an update has been answered ok with alias "newer" on a store that holds
\* a mapping, but none under the path alias and none under "newer"
C24_Witness ==
    /\ pc["g1"] = "replied" /\ req["g1"].h = "update"
    /\ req["g1"].new_alias = "newer"
    /\ resp["g1"] = RespOK("newer")
    /\ table # {}
    /\ ~Live(table, req["g1"].alias) /\ ~Live(table, "newer")

\* call c tries to put a mapping under alias a: a save under a, or a rename
\* onto a from another alias
Claims(c, a) ==
    \/ c.fn = "SaveURL" /\ c.a2 = a
    \/ c.fn = "UpdateAlias" /\ c.a2 = a /\ c.a1 # a

\* the mapping a rename is about to move is live
SourceLive(t, c) == c.fn = "UpdateAlias" => Live(t, c.a1)

\* the rows call c, having succeeded, leaves under alias a: for a rename the
\* rows that were under its old alias, moved; for a save one row with its
\* target
WonBy(t, c, a, rows) ==
    IF c.fn = "UpdateAlias"
    THEN /\ {[id |-> r.id, url |-> r.url] : r \in rows}
               = {[id |-> r.id, url |-> r.url] : r \in RowsWithAlias(t, c.a1)}
         /\ rows # {}
    ELSE Cardinality(rows) = 1 /\ \A r \in rows : r.url = c.a1

\* C25: two concurrent calls claim the same free alias C, a rename racing a
\* rename from another alias or a rename racing a save.  The call whose
\* statement runs first succeeds, C then resolves to its target and the
\* other call's mapping stays as it was; the call whose statement runs
\* second, on C live, returns an error and changes nothing, so its mapping
\* stays under its old alias.
C25_ClaimRace ==
    [][\A p \in Procs, q \in Procs :
         (/\ p # q /\ pc[p] = "exec" /\ pc'[p] = "done"
          /\ \E C \in Aliases : Claims(call[p], C) /\ Claims(call[q], C)
          /\ "UpdateAlias" \in {call[p].fn, call[q].fn}
          /\ call[p].fn = call[q].fn => call[p].a1 # call[q].a1
          /\ SourceLive(table, call[p]))
         => LET C == call[p].a2 IN
            /\ (pc[q] = "exec" /\ ~Live(table, C) /\ SourceLive(table, call[q])) =>
                  /\ res'[p].err = NoError
                  /\ WonBy(table, call[p], C, RowsWithAlias(table', C))
                  /\ call[q].fn = "UpdateAlias" =>
                        RowsWithAlias(table', call[q].a1) = RowsWithAlias(table, call[q].a1)
            /\ (pc[q] = "done" /\ res[q].err = NoError /\ Live(table, C)) =>
                  /\ res'[p].err # NoError
                  /\ table' = table]_vars

\* two renames from different aliases onto the same alias have returned:
\* one with nil, the other with an error; the loser's mapping is under its
\* old alias and the winner's is under the new one
C25_Witness ==
    \E p \in Procs, q \in Procs :
        /\ p # q /\ pc[p] = "done" /\ pc[q] = "done"
        /\ call[p].fn = "UpdateAlias" /\ call[q].fn = "UpdateAlias"
        /\ call[p].a2 = call[q].a2 /\ call[p].a1 # call[q].a1
        /\ call[p].a1 # call[p].a2 /\ call[q].a1 # call[q].a2
        /\ res[p].err = NoError /\ res[q].err = ErrConstraintUnique
        /\ ~Live(table, call[p].a1) /\ Live(table, call[q].a1) /\ Live(table, call[p].a2)
        /\ \E r1 \in table, r2 \in table :
              r1.alias = call[p].a2 /\ r2.alias = call[q].a1 /\ r1.url # r2.url

====
